---- MODULE Spec2Model ----
(***************************************************************************)
(* HubSpot integration (backend/integrations/hubspot.py): the OAuth2       *)
(* authorization-code flow, the credential accessor with its one-shot      *)
(* token refresh, and the three-endpoint item fetch.  All shared state     *)
(* lives in the external cache (Redis); the provider is an environment     *)
(* whose answers are chosen nondeterministically.                          *)
(***************************************************************************)
EXTENDS Integers, Sequences, FiniteSets, TLC

VARIABLES
    now,        \* int(time.time()), in seconds
    redis,      \* the cache: key -> [value, expire_at]; absent keys are not in DOMAIN
    nextNonce,  \* secrets.token_urlsafe(32): the n-th call yields nonce n (never repeats)
    lastAuth,   \* history: the most recent authorize_hubspot call (<<>> before the first)
    consumed,   \* history: nonces whose callback completed successfully
    issued,     \* history: nonce -> the org+user of the authorize_hubspot call that drew it
    tasks,      \* the calls in flight (suspended at an await), by task
    last        \* the operation that has just run: its inputs, the requests sent to
                \* the provider and the answers received, its outcome

vars == <<now, redis, nextNonce, lastAuth, consumed, issued, tasks, last>>

-----------------------------------------------------------------------------
(* Bounds of the model *)

StartTime == 1          \* the clock is a positive epoch time
MaxTime == 5401         \* the clock stops here
MaxNonce == 2           \* number of authorize_hubspot calls explored

(* the clock is observed at the start and 600, 1800, 3600 and 5400 seconds later:
   the instants at which a state entry, an access token and a credentials
   entry written at the start lapse, and the instant at which a credentials
   entry re-cached at the first refresh lapses *)
Instants == {StartTime + d : d \in {0, 600, 1800, 3600, 5400}}

(* Identifier pairs <<org_id, user_id>> the endpoints are called with: two
   different pairs, which format to the same cache keys. *)
Pairs == {<<"o1", "u1:x">>, <<"o1:u1", "x">>}

-----------------------------------------------------------------------------
(* Program constants *)

STATE_EXPIRE == 600         \* expire= of the state entry
CALLBACK_EXPIRE == 3600     \* expire= of the credentials entry written by the callback
(* the refreshed entry given the time to live of a state entry *)
REFRESH_EXPIRE_AsState == STATE_EXPIRE
REFRESH_EXPIRE == 3600      \* expire= of the credentials entry written by a refresh
PAGE_LIMIT == 100           \* params={'limit': 100}

CLIENT_ID == ""
CLIENT_SECRET == ""
REDIRECT_URI == ""
SCOPES == <<"crm.objects.contacts.read", "crm.objects.companies.read",
            "crm.objects.deals.read">>

-----------------------------------------------------------------------------
(* Python values *)

(* None, where the alternative is a text or a document *)
None == <<>>

(* truth value of d.get(k) for an integer field: absent and 0 are falsy *)
Truthy(d, k) == k \in DOMAIN d /\ d[k] # 0

(* f"{d.get(k)}": the field, or the text None when it is absent *)
Fmt(d, k) == IF k \in DOMAIN d THEN d[k] ELSE "None"

(* json.dumps / json.loads: the text of a JSON document is represented by the
   document tagged "json"; any other text does not parse. *)
JsonDumps(v) == <<"json", v>>
IsJson(s) == Len(s) = 2 /\ s[1] = "json"
JsonLoads(s) == s[2]

(* base64.urlsafe_b64encode / urlsafe_b64decode: the encoding of a text is
   the text tagged "b64"; any other string does not decode. *)
B64Encode(s) == <<"b64", s>>
IsB64(s) == Len(s) = 2 /\ s[1] = "b64"
B64Decode(s) == s[2]

(* a JSON document that is no object (an array), and the test for an object *)
JsonArray == [json_array |-> <<>>]
IsDict(v) == "json_array" \notin DOMAIN v

-----------------------------------------------------------------------------
(* The cache (redis_client): set with expiry, get, delete *)

StateKey(org_id, user_id) == "hubspot_state:" \o org_id \o ":" \o user_id
CredKey(org_id, user_id) == "hubspot_credentials:" \o org_id \o ":" \o user_id

Live(r, k, t) == k \in DOMAIN r /\ t < r[k].expire_at

get_value_redis(r, k, t) == IF Live(r, k, t) THEN r[k].value ELSE None

add_key_value_redis(r, k, v, expire, t) ==
    [x \in DOMAIN r \cup {k} |->
        IF x = k THEN [value |-> v, expire_at |-> t + expire] ELSE r[x]]

delete_key_redis(r, k) == [x \in DOMAIN r \ {k} |-> r[x]]

(* entries whose time to live has elapsed are gone *)
Evict(r, t) == [x \in {k \in DOMAIN r : t < r[k].expire_at} |-> r[x]]

-----------------------------------------------------------------------------
(* authorize_hubspot *)

StateData(nonce, user_id, org_id) ==
    [state |-> nonce, user_id |-> user_id, org_id |-> org_id]

AuthUrl(encoded_state) ==
    [base |-> "https://app.hubspot.com/oauth/authorize",
     client_id |-> CLIENT_ID, redirect_uri |-> REDIRECT_URI,
     scope |-> SCOPES, state |-> encoded_state]

(* the state stored under the key of another nonce's holder: user and
   organization swapped in the key *)
AuthorizeStore_Swapped(r, org_id, user_id, state_data, t) ==
    add_key_value_redis(r, StateKey(user_id, org_id), JsonDumps(state_data),
                        STATE_EXPIRE, t)

(* the state stored with the time to live of a credentials entry *)
AuthorizeStore_LongLived(r, org_id, user_id, state_data, t) ==
    add_key_value_redis(r, StateKey(org_id, user_id), JsonDumps(state_data),
                        CALLBACK_EXPIRE, t)

(* the state stored only when no state is pending for the key *)
AuthorizeStore_IfAbsent(r, org_id, user_id, state_data, t) ==
    IF Live(r, StateKey(org_id, user_id), t) THEN r
    ELSE add_key_value_redis(r, StateKey(org_id, user_id), JsonDumps(state_data),
                             STATE_EXPIRE, t)

AuthorizeStore(r, org_id, user_id, state_data, t) ==
    add_key_value_redis(r, StateKey(org_id, user_id), JsonDumps(state_data),
                        STATE_EXPIRE, t)

authorize_hubspot(user_id, org_id) ==
    /\ nextNonce <= MaxNonce
    /\ LET state_data == StateData(nextNonce, user_id, org_id)
           encoded_state == B64Encode(JsonDumps(state_data))
       IN /\ redis' = AuthorizeStore(redis, org_id, user_id, state_data, now)
          /\ lastAuth' = [nonce |-> nextNonce, user_id |-> user_id,
                          org_id |-> org_id, at |-> now,
                          url |-> AuthUrl(encoded_state)]
          /\ last' = [op |-> "authorize", user_id |-> user_id, org_id |-> org_id,
                      status |-> 200, requests |-> <<>>, responses |-> <<>>,
                      result |-> AuthUrl(encoded_state)]
    /\ nextNonce' = nextNonce + 1
    /\ issued' = issued @@ (nextNonce :> [user_id |-> user_id, org_id |-> org_id])
    /\ UNCHANGED <<now, consumed, tasks>>

-----------------------------------------------------------------------------
(* The provider's token endpoint (https://api.hubapi.com/oauth/v1/token) *)

AccessTokens == {"at1"}
RefreshTokens == {"rt1"}
ExpiresIn == {1800}

(* the JSON object of a successful answer to a refresh_token request at
   time t: access_token and expires_in, with or without a new refresh_token
   (RFC 6749 section 6 lets the provider omit it), with or without a
   created_at field of the provider's own *)
RefreshBodies(t) ==
    LET base == {[access_token |-> a, expires_in |-> e] :
                    a \in AccessTokens, e \in ExpiresIn}
        withRt == base \cup {b @@ ("refresh_token" :> rt) :
                                b \in base, rt \in RefreshTokens}
    IN withRt \cup {b @@ ("created_at" :> t) : b \in withRt}

(* the JSON object of a successful answer to an authorization_code request:
   access_token, refresh_token and expires_in, with or without a created_at
   field of the provider's own *)
ExchangeBodies(t) ==
    {b \in RefreshBodies(t) : "refresh_token" \in DOMAIN b}

(* an answer of the provider: a 2xx with a JSON object, a 2xx whose body is
   not JSON, or a failure that httpx reports as httpx.HTTPError *)
Answers(bodies) ==
    {[kind |-> "ok", body |-> b] : b \in bodies}
        \cup {[kind |-> "http_error"], [kind |-> "bad_json"]}

AuthCodeRequest(code) ==
    [url |-> "https://api.hubapi.com/oauth/v1/token",
     grant_type |-> "authorization_code", client_id |-> CLIENT_ID,
     client_secret |-> CLIENT_SECRET, redirect_uri |-> REDIRECT_URI,
     code |-> code]

(* the refresh request sent without the record's refresh token *)
RefreshRequest_Blank(refresh_token) ==
    [url |-> "https://api.hubapi.com/oauth/v1/token",
     grant_type |-> "refresh_token", client_id |-> CLIENT_ID,
     client_secret |-> CLIENT_SECRET, refresh_token |-> ""]

RefreshRequest(refresh_token) ==
    [url |-> "https://api.hubapi.com/oauth/v1/token",
     grant_type |-> "refresh_token", client_id |-> CLIENT_ID,
     client_secret |-> CLIENT_SECRET, refresh_token |-> refresh_token]

-----------------------------------------------------------------------------
(* oauth2callback_hubspot *)

(* the values of the callback's state query parameter *)
StateBlobs ==
    LET full == {StateData(n, p[2], p[1]) : n \in 1..MaxNonce, p \in Pairs}
    IN full \cup {b @@ ("extra" :> "x") : b \in full}
            \cup {[user_id |-> p[2], org_id |-> p[1]] : p \in Pairs}

StateParams ==
    {None, <<"%%%">>, B64Encode(<<"not json">>), B64Encode(JsonDumps(JsonArray))}
        \cup {B64Encode(JsonDumps(b)) : b \in StateBlobs}

(* the query strings of the callback: with an error parameter, without a
   code, and with a code and each of the state values *)
CallbackRequests ==
    {[error |-> TRUE, code |-> "c1", state |-> None],
     [error |-> FALSE, code |-> "", state |-> B64Encode(<<"not json">>)]}
        \cup {[error |-> FALSE, code |-> "c1", state |-> s] : s \in StateParams}

(* the comparison made on the user_id field instead of the nonce *)
NonceDiffers_WrongField(state_data, saved) ==
    Fmt(state_data, "user_id") # Fmt(saved, "user_id")

(* no comparison of the nonces at all *)
NonceDiffers_Never(state_data, saved) == FALSE

(* state_data.get('state') != json.loads(saved_state).get('state') *)
NonceDiffers(state_data, saved) ==
    IF "state" \in DOMAIN state_data /\ "state" \in DOMAIN saved
    THEN state_data.state # saved.state
    ELSE ("state" \in DOMAIN state_data) # ("state" \in DOMAIN saved)

(* the check for a missing entry alone, without the nonce comparison *)
StateRejected_MissingOnly(state_data, saved_state) == saved_state = None

(* not saved_state or <nonce differs> *)
StateRejected(state_data, saved_state) ==
    \/ saved_state = None
    \/ NonceDiffers(state_data, JsonLoads(saved_state))

(* the checks before the token exchange: the exception raised, or "pass" *)
CallbackValidate(error, code, encoded_state, r, t) ==
    IF error THEN "HubSpot OAuth error"
    ELSE IF code = "" \/ encoded_state = None
    THEN "Missing required parameters: code or state"
    ELSE IF ~IsB64(encoded_state) \/ ~IsJson(B64Decode(encoded_state))
    THEN "Invalid state parameter"
    ELSE LET state_data == JsonLoads(B64Decode(encoded_state)) IN
         IF ~IsDict(state_data) THEN "AttributeError"
         ELSE LET saved_state ==
                    get_value_redis(r, StateKey(Fmt(state_data, "org_id"),
                                                Fmt(state_data, "user_id")), t)
              IN IF StateRejected(state_data, saved_state)
                 THEN "State validation failed"
                 ELSE "pass"

(* the tokens stored and the state entry left in place *)
CallbackStore_KeepState(r, org_id, user_id, tokens, t) ==
    add_key_value_redis(r, CredKey(org_id, user_id), JsonDumps(tokens),
                        CALLBACK_EXPIRE, t)

(* the cache after a successful exchange: tokens stored, then state deleted *)
CallbackStore(r, org_id, user_id, tokens, t) ==
    delete_key_redis(
        add_key_value_redis(r, CredKey(org_id, user_id), JsonDumps(tokens),
                            CALLBACK_EXPIRE, t),
        StateKey(org_id, user_id))

oauth2callback_hubspot(error, code, encoded_state) ==
    LET verdict == CallbackValidate(error, code, encoded_state, redis, now)
        request == [op |-> "callback", error |-> error, code |-> code,
                    state |-> encoded_state]
    IN
    /\ \/ /\ verdict # "pass"
          /\ last' = request @@
                [status |-> IF verdict = "AttributeError" THEN 500 ELSE 400,
                 detail |-> verdict, requests |-> <<>>, responses |-> <<>>]
          /\ UNCHANGED <<redis, consumed>>
       \/ /\ verdict = "pass"
          /\ \E response \in Answers(ExchangeBodies(now)) :
             LET state_data == JsonLoads(B64Decode(encoded_state))
                 user_id == Fmt(state_data, "user_id")
                 org_id == Fmt(state_data, "org_id")
             IN
             CASE response.kind = "http_error" ->
                    /\ last' = request @@
                            [status |-> 400,
                             detail |-> "Failed to exchange code for tokens",
                             requests |-> <<AuthCodeRequest(code)>>,
                             responses |-> <<response>>]
                    /\ UNCHANGED <<redis, consumed>>
               [] response.kind = "bad_json" ->
                    /\ last' = request @@
                            [status |-> 500, detail |-> "JSONDecodeError",
                             requests |-> <<AuthCodeRequest(code)>>,
                             responses |-> <<response>>]
                    /\ UNCHANGED <<redis, consumed>>
               [] response.kind = "ok" ->
                    /\ redis' = CallbackStore(redis, org_id, user_id,
                                              response.body, now)
                    /\ consumed' = consumed \cup
                            (IF "state" \in DOMAIN state_data
                             THEN {state_data.state} ELSE {})
                    /\ last' = request @@
                            [status |-> 200, detail |-> "window.close()",
                             requests |-> <<AuthCodeRequest(code)>>,
                             responses |-> <<response>>]
    /\ UNCHANGED <<now, nextNonce, lastAuth, issued, tasks>>

-----------------------------------------------------------------------------
(* get_hubspot_credentials *)

(* the expiry test with the token's lifetime left out of the comparison *)
IsExpired_NoLifetime(credentials, t) ==
    /\ Truthy(credentials, "expires_in")
    /\ Truthy(credentials, "created_at")
    /\ t >= credentials.created_at

(* current_time >= credentials['created_at'] + credentials['expires_in'],
   under the guard that both fields are present and nonzero *)
IsExpired(credentials, t) ==
    /\ Truthy(credentials, "expires_in")
    /\ Truthy(credentials, "created_at")
    /\ t >= credentials.created_at + credentials.expires_in

(* the refreshed tokens cached as the provider sent them *)
Stamp_Missing(new_tokens, t) == new_tokens

(* new_tokens['created_at'] = int(time.time()) *)
Stamp(new_tokens, t) ==
    [k \in DOMAIN new_tokens \cup {"created_at"} |->
        IF k = "created_at" THEN t ELSE new_tokens[k]]

(* the new tokens merged into the record already cached: the fields the
   answer omits are kept *)
RefreshStore_Merged(r, org_id, user_id, new_tokens, t) ==
    LET k == CredKey(org_id, user_id)
        old == IF k \in DOMAIN r THEN JsonLoads(r[k].value) ELSE new_tokens
    IN add_key_value_redis(r, k, JsonDumps(new_tokens @@ old), REFRESH_EXPIRE, t)

(* the new tokens cached only over a record that is still expired: the
   first of several refreshing calls wins *)
RefreshStore_FirstWins(r, org_id, user_id, new_tokens, t) ==
    LET k == CredKey(org_id, user_id) IN
    IF k \in DOMAIN r /\ ~IsExpired(JsonLoads(r[k].value), t) THEN r
    ELSE add_key_value_redis(r, k, JsonDumps(new_tokens), REFRESH_EXPIRE, t)

RefreshStore(r, org_id, user_id, new_tokens, t) ==
    add_key_value_redis(r, CredKey(org_id, user_id), JsonDumps(new_tokens),
                        REFRESH_EXPIRE, t)

get_hubspot_credentials(user_id, org_id) ==
    LET credentials_json == get_value_redis(redis, CredKey(org_id, user_id), now)
        request == [op |-> "credentials", user_id |-> user_id, org_id |-> org_id]
        credentials == JsonLoads(credentials_json)
    IN
    /\ \/ /\ credentials_json = None
          /\ last' = request @@
                [status |-> 400, detail |-> "No HubSpot credentials found",
                 requests |-> <<>>, responses |-> <<>>, result |-> None]
          /\ UNCHANGED redis
       \/ /\ credentials_json # None
          /\ ~IsExpired(credentials, now)
          /\ last' = request @@
                [status |-> 200, detail |-> "cached",
                 requests |-> <<>>, responses |-> <<>>,
                 result |-> credentials]
          /\ UNCHANGED redis
       \/ /\ credentials_json # None
          /\ IsExpired(credentials, now)
          /\ "refresh_token" \notin DOMAIN credentials
          /\ last' = request @@
                [status |-> 500, detail |-> "KeyError",
                 requests |-> <<>>, responses |-> <<>>, result |-> None]
          /\ UNCHANGED redis
       \/ /\ credentials_json # None
          /\ IsExpired(credentials, now)
          /\ "refresh_token" \in DOMAIN credentials
          /\ \E response \in Answers(RefreshBodies(now)) :
             LET sent == <<RefreshRequest(credentials.refresh_token)>> IN
             CASE response.kind = "http_error" ->
                    /\ last' = request @@
                            [status |-> 400,
                             detail |-> "Failed to refresh HubSpot token",
                             requests |-> sent, responses |-> <<response>>,
                                 result |-> None]
                    /\ UNCHANGED redis
               [] response.kind = "bad_json" ->
                    /\ last' = request @@
                            [status |-> 500, detail |-> "JSONDecodeError",
                             requests |-> sent, responses |-> <<response>>,
                                 result |-> None]
                    /\ UNCHANGED redis
               [] response.kind = "ok" ->
                    LET new_tokens == Stamp(response.body, now) IN
                    /\ redis' = RefreshStore(redis, org_id, user_id,
                                             new_tokens, now)
                    /\ last' = request @@
                            [status |-> 200, detail |-> "refreshed",
                             requests |-> sent, responses |-> <<response>>,
                                 result |-> new_tokens]
    /\ UNCHANGED <<now, nextNonce, lastAuth, consumed, issued, tasks>>

-----------------------------------------------------------------------------
(* parse_hubspot_datetime, create_integration_item_metadata_object *)

(* A text is the sequence of its tokens, a blank being a token of its own;
   the empty text is <<>>.  Python's None, where the alternative is a text,
   is a token sequence that no text is. *)
PyNone == <<"<None>">>

(* str.strip(): leading and trailing blanks removed *)
RECURSIVE LStrip(_)
LStrip(s) == IF s # <<>> /\ Head(s) = " " THEN LStrip(Tail(s)) ELSE s

RECURSIVE RStrip(_)
RStrip(s) == IF s # <<>> /\ s[Len(s)] = " " THEN RStrip(SubSeq(s, 1, Len(s) - 1))
             ELSE s

Strip(s) == RStrip(LStrip(s))

(* f"{v}" of a value that is a text or None *)
Str(v) == IF v = PyNone THEN <<"None">> ELSE v

(* d.get(k, default) and d.get(k) *)
GetOr(d, k, default) == IF k \in DOMAIN d THEN d[k] ELSE default
GetOrNone(d, k) == GetOr(d, k, PyNone)

(* truth value of a text or None: None and the empty text are falsy *)
NonEmpty(v) == v # PyNone /\ v # <<>>

(* A timestamp text has the tokens <seconds> [<fraction>] ["Z"]; <seconds>
   is well formed when it reads %Y-%m-%dT%H:%M:%S, <fraction> is a token that
   starts with a dot.  The result is the datetime, or None. *)
IsoSeconds == {"2024-01-01T00:00:00"}
Fractions == {".000"}

parse_hubspot_datetime(dt_str) ==
    IF dt_str = PyNone \/ dt_str = <<>> THEN PyNone
    ELSE LET body == IF dt_str[Len(dt_str)] = "Z"
                     THEN SubSeq(dt_str, 1, Len(dt_str) - 1)
                     ELSE dt_str
         IN IF \E i \in 1..Len(body) : body[i] \in Fractions
            THEN IF Len(body) = 2 /\ body[1] \in IsoSeconds
                                  /\ body[2] \in Fractions
                 THEN <<"datetime", body[1], body[2]>>
                 ELSE PyNone
            ELSE IF Len(body) = 1 /\ body[1] \in IsoSeconds
                 THEN <<"datetime", body[1]>>
                 ELSE PyNone

DisplayName(item_id, properties, item_type) ==
    CASE item_type = "contact" ->
            LET joined == Strip(Str(GetOr(properties, "firstname", <<>>))
                                \o <<" ">>
                                \o Str(GetOr(properties, "lastname", <<>>)))
                name == IF joined = <<>>
                        THEN GetOr(properties, "email",
                                   <<"Contact", " ">> \o item_id)
                        ELSE joined
                email == GetOrNone(properties, "email")
            IN IF NonEmpty(email)
               THEN Str(name) \o <<" ", "(">> \o email \o <<")">>
               ELSE name
      [] item_type = "company" ->
            LET name == GetOr(properties, "name", <<"Company", " ">> \o item_id)
                domain == GetOrNone(properties, "domain")
            IN IF NonEmpty(domain)
               THEN Str(name) \o <<" ", "(">> \o domain \o <<")">>
               ELSE name
      [] item_type = "deal" ->
            LET name == GetOr(properties, "dealname", <<"Deal", " ">> \o item_id)
                amount == GetOrNone(properties, "amount")
            IN IF NonEmpty(amount)
               THEN Str(name) \o <<" ", "(", "$">> \o amount \o <<")">>
               ELSE name

(* IntegrationItem(id, type, name, creation_time, last_modified_time, url) *)
IntegrationItem(id, type, name, creation_time, last_modified_time, url) ==
    [id |-> id, type |-> type, name |-> name, creation_time |-> creation_time,
     last_modified_time |-> last_modified_time, url |-> url]

create_integration_item_metadata_object(item, item_type) ==
    LET item_id == Str(GetOr(item, "id", <<>>))
        properties == GetOr(item, "properties", <<>>)
        integration_item ==
            IntegrationItem(item_id \o <<"_", item_type>>, item_type,
                            DisplayName(item_id, properties, item_type),
                            parse_hubspot_datetime(GetOrNone(item, "createdAt")),
                            parse_hubspot_datetime(GetOrNone(item, "updatedAt")),
                            PyNone)
    IN CASE item_type = "contact" ->
                integration_item @@
                    [phone |-> GetOrNone(properties, "phone"),
                     email |-> GetOrNone(properties, "email")]
         [] item_type = "company" ->
                integration_item @@
                    [phone |-> GetOrNone(properties, "phone"),
                     domain |-> GetOrNone(properties, "domain")]
         [] item_type = "deal" ->
                integration_item @@ [amount |-> GetOrNone(properties, "amount")]

-----------------------------------------------------------------------------
(* get_items_hubspot *)

ItemTypes == <<"contact", "company", "deal">>
Endpoints == <<"https://api.hubapi.com/crm/v3/objects/contacts",
               "https://api.hubapi.com/crm/v3/objects/companies",
               "https://api.hubapi.com/crm/v3/objects/deals">>

Stamp2024 == <<"2024-01-01T00:00:00", ".000", "Z">>

(* the records the three list endpoints serve *)
SampleItems(item_type) ==
    CASE item_type = "contact" ->
            {[id |-> <<"1">>,
              properties |-> [firstname |-> <<"Ann">>, lastname |-> <<"Lee">>,
                              email |-> <<"ann@x.io">>],
              createdAt |-> Stamp2024, updatedAt |-> Stamp2024],
             [id |-> <<"2">>,
              properties |-> [firstname |-> <<>>, email |-> <<"bob@x.io">>],
              createdAt |-> Stamp2024]}
      [] item_type = "company" ->
            {[id |-> <<"3">>,
              properties |-> [name |-> <<"Acme">>, domain |-> <<"acme.io">>],
              createdAt |-> <<"yesterday">>]}
      [] item_type = "deal" ->
            {[id |-> <<"4">>,
              properties |-> [dealname |-> <<"Big">>, amount |-> <<"100">>]],
             [id |-> <<"5">>, properties |-> [dealname |-> <<"Small">>]]}

(* the result lists of one page: no record, one record, or two different ones *)
ResultLists(item_type) ==
    {<<>>} \cup {<<i>> : i \in SampleItems(item_type)}
           \cup {<<p[1], p[2]>> :
                    p \in {q \in SampleItems(item_type) \X SampleItems(item_type) :
                                q[1] # q[2]}}

(* the answers of a list endpoint: a JSON object with or without results, a
   body that is not JSON, or a failure reported as httpx.HTTPError *)
ListAnswers(item_type) ==
    Answers({[results |-> l] : l \in ResultLists(item_type)}
                \cup {[total |-> 0]})

ListRequest(i, access_token) ==
    [method |-> "GET", url |-> Endpoints[i],
     authorization |-> <<"Bearer", " ", access_token>>,
     limit |-> PAGE_LIMIT]

(* the items of one answered page, in order *)
PageItems(answer, item_type) ==
    LET results == GetOr(answer.body, "results", <<>>)
    IN [n \in 1..Len(results) |->
            create_integration_item_metadata_object(results[n], item_type)]

(* the first endpoint whose answer is a failure, or 4 when none is *)
FirstFailure(answers) ==
    IF \E i \in 1..3 : answers[i].kind # "ok"
    THEN CHOOSE i \in 1..3 : /\ answers[i].kind # "ok"
                             /\ \A j \in 1..(i - 1) : answers[j].kind = "ok"
    ELSE 4

(* the fetch keeps what it gathered when an endpoint fails *)
Fetch_Partial(access_token, answers) ==
    LET f == FirstFailure(answers)
        sent == IF f = 4 THEN 3 ELSE f
        pages == [i \in 1..3 |-> IF i < f THEN PageItems(answers[i], ItemTypes[i])
                                 ELSE <<>>]
    IN [status |-> 200, detail |-> "ok",
        requests |-> [i \in 1..sent |-> ListRequest(i, access_token)],
        responses |-> SubSeq(answers, 1, sent),
        result |-> pages[1] \o pages[2] \o pages[3]]

(* the three list calls in order, up to the first failure; a failed fetch
   raises and returns nothing *)
Fetch(access_token, answers) ==
    LET f == FirstFailure(answers)
        sent == IF f = 4 THEN 3 ELSE f
    IN IF f = 4
       THEN [status |-> 200, detail |-> "ok",
             requests |-> [i \in 1..3 |-> ListRequest(i, access_token)],
             responses |-> answers,
             result |-> PageItems(answers[1], ItemTypes[1])
                            \o PageItems(answers[2], ItemTypes[2])
                            \o PageItems(answers[3], ItemTypes[3])]
       ELSE [status |-> 400,
             detail |-> IF answers[f].kind = "bad_json"
                        THEN "Invalid credentials format"
                        ELSE "Failed to fetch HubSpot data",
             requests |-> [i \in 1..sent |-> ListRequest(i, access_token)],
             responses |-> SubSeq(answers, 1, sent)]

(* the values of the credentials argument *)
CredentialTexts ==
    {<<"not json">>, JsonDumps(JsonArray),
     JsonDumps([refresh_token |-> "rt1"]),
     JsonDumps([access_token |-> "", refresh_token |-> "rt1"]),
     JsonDumps([access_token |-> "at1", refresh_token |-> "rt1",
                expires_in |-> 1800])}

get_items_hubspot(credentials_text, answers) ==
    LET request == [op |-> "items", credentials |-> credentials_text]
        credentials == JsonLoads(credentials_text)
        failed(status, detail) ==
            request @@ [status |-> status, detail |-> detail,
                        requests |-> <<>>, responses |-> <<>>]
    IN
    /\ last' =
        IF ~IsJson(credentials_text)
        THEN failed(400, "Invalid credentials format")
        ELSE IF ~IsDict(credentials)
        THEN failed(500, "AttributeError")
        ELSE IF "access_token" \notin DOMAIN credentials
                    \/ credentials.access_token = ""
        THEN failed(400, "Invalid credentials: missing access token")
        ELSE request @@ Fetch(credentials.access_token, answers)
    /\ UNCHANGED <<now, redis, nextNonce, lastAuth, consumed, issued, tasks>>

-----------------------------------------------------------------------------
(* Concurrent calls.  The handlers are coroutines: a call runs until it
   awaits the cache or the provider, and other calls run until the answer
   arrives.  A call is split at the awaits whose order against other calls
   matters: the provider's answer (lines 125, 199), the token store
   (lines 142, 216) and the state delete (line 149).  A call in flight can
   also be lost (the worker dies, the request is cancelled). *)

MaxTasks == 2           \* number of calls in flight at once

Tasks == 1..MaxTasks
Idle == [pc |-> "idle"]

(* a new call takes the first free task *)
FirstFree(i) == tasks[i] = Idle /\ \A j \in 1..(i - 1) : tasks[j] # Idle

(* the access token the provider issues in answer to the request of call i *)
TokenOf(i) == "at" \o ToString(i)
BodiesFor(bodies, i) == {[b EXCEPT !.access_token = TokenOf(i)] : b \in bodies}

(* the concurrent calls are made for one org+user *)
StepPair == <<"o1", "u1:x">>

(* the state values presented by concurrent callbacks: those of the URLs that
   authorize_hubspot returns for this org+user *)
IssuedStateParams ==
    {B64Encode(JsonDumps(StateData(n, StepPair[2], StepPair[1]))) : n \in 1..MaxNonce}

(* the token answer as HubSpot sends it: without a created_at *)
PlainExchangeBodies(t) == {b \in ExchangeBodies(t) : "created_at" \notin DOMAIN b}
PlainRefreshBodies(t) == {b \in RefreshBodies(t) : "created_at" \notin DOMAIN b}

(* lines 85-137: the checks, the read of the saved state, and the
   authorization_code request sent *)
callback_begin(i, code, encoded_state) ==
    LET verdict == CallbackValidate(FALSE, code, encoded_state, redis, now)
        request == [op |-> "callback", task |-> i, error |-> FALSE,
                    code |-> code, state |-> encoded_state]
        state_data == JsonLoads(B64Decode(encoded_state))
    IN
    /\ FirstFree(i)
    /\ \/ /\ verdict # "pass"
          /\ last' = request @@
                [status |-> IF verdict = "AttributeError" THEN 500 ELSE 400,
                 detail |-> verdict, requests |-> <<>>, responses |-> <<>>]
          /\ UNCHANGED tasks
       \/ /\ verdict = "pass"
          /\ tasks' = [tasks EXCEPT ![i] =
                        [pc |-> "exchange", op |-> "callback", code |-> code,
                         state |-> encoded_state,
                         user_id |-> Fmt(state_data, "user_id"),
                         org_id |-> Fmt(state_data, "org_id")]]
          /\ last' = [op |-> "callback_begin", task |-> i,
                      state |-> encoded_state,
                      requests |-> <<AuthCodeRequest(code)>>]
    /\ UNCHANGED <<now, redis, nextNonce, lastAuth, consumed, issued>>

(* lines 138-146: the provider's answer arrives; on success the tokens are
   stored *)
callback_store(i) ==
    LET task == tasks[i]
        request == [op |-> "callback", task |-> i, error |-> FALSE,
                    code |-> task.code, state |-> task.state]
    IN
    /\ task.pc = "exchange"
    /\ \E response \in Answers(PlainExchangeBodies(now)) :
       CASE response.kind = "http_error" ->
              /\ last' = request @@
                      [status |-> 400,
                       detail |-> "Failed to exchange code for tokens",
                       requests |-> <<AuthCodeRequest(task.code)>>,
                       responses |-> <<response>>]
              /\ tasks' = [tasks EXCEPT ![i] = Idle]
              /\ UNCHANGED redis
         [] response.kind = "bad_json" ->
              /\ last' = request @@
                      [status |-> 500, detail |-> "JSONDecodeError",
                       requests |-> <<AuthCodeRequest(task.code)>>,
                       responses |-> <<response>>]
              /\ tasks' = [tasks EXCEPT ![i] = Idle]
              /\ UNCHANGED redis
         [] response.kind = "ok" ->
              /\ redis' = add_key_value_redis(redis,
                                CredKey(task.org_id, task.user_id),
                                JsonDumps(response.body), CALLBACK_EXPIRE, now)
              /\ tasks' = [tasks EXCEPT ![i] = [task EXCEPT !.pc = "delete"]]
              /\ last' = [op |-> "callback_store", task |-> i,
                          state |-> task.state, responses |-> <<response>>]
    /\ UNCHANGED <<now, nextNonce, lastAuth, consumed, issued>>

(* lines 149-158: the state entry is deleted and the popup page returned *)
callback_delete(i) ==
    LET task == tasks[i]
        state_data == JsonLoads(B64Decode(task.state))
    IN
    /\ task.pc = "delete"
    /\ redis' = delete_key_redis(redis, StateKey(task.org_id, task.user_id))
    /\ consumed' = consumed \cup (IF "state" \in DOMAIN state_data
                                  THEN {state_data.state} ELSE {})
    /\ tasks' = [tasks EXCEPT ![i] = Idle]
    /\ last' = [op |-> "callback", task |-> i, error |-> FALSE,
                code |-> task.code, state |-> task.state,
                status |-> 200, detail |-> "window.close()",
                requests |-> <<AuthCodeRequest(task.code)>>]
    /\ UNCHANGED <<now, nextNonce, lastAuth, issued>>

(* lines 183-210: the cached record is read and tested; an expired one has
   its refresh_token request sent *)
credentials_begin(i, user_id, org_id) ==
    LET credentials_json == get_value_redis(redis, CredKey(org_id, user_id), now)
        request == [op |-> "credentials", task |-> i, user_id |-> user_id,
                    org_id |-> org_id]
        credentials == JsonLoads(credentials_json)
    IN
    /\ FirstFree(i)
    /\ \/ /\ credentials_json = None
          /\ last' = request @@
                [status |-> 400, detail |-> "No HubSpot credentials found",
                 requests |-> <<>>, result |-> None]
          /\ UNCHANGED tasks
       \/ /\ credentials_json # None
          /\ ~IsExpired(credentials, now)
          /\ last' = request @@
                [status |-> 200, detail |-> "cached",
                 requests |-> <<>>, result |-> credentials]
          /\ UNCHANGED tasks
       \/ /\ credentials_json # None
          /\ IsExpired(credentials, now)
          /\ "refresh_token" \notin DOMAIN credentials
          /\ last' = request @@
                [status |-> 500, detail |-> "KeyError",
                 requests |-> <<>>, result |-> None]
          /\ UNCHANGED tasks
       \/ /\ credentials_json # None
          /\ IsExpired(credentials, now)
          /\ "refresh_token" \in DOMAIN credentials
          /\ tasks' = [tasks EXCEPT ![i] =
                        [pc |-> "refresh", op |-> "credentials",
                         user_id |-> user_id, org_id |-> org_id,
                         refresh_token |-> credentials.refresh_token]]
          /\ last' = [op |-> "credentials_begin", task |-> i,
                      user_id |-> user_id, org_id |-> org_id,
                      requests |-> <<RefreshRequest(credentials.refresh_token)>>]
    /\ UNCHANGED <<now, redis, nextNonce, lastAuth, consumed, issued>>

(* lines 211-215: the provider's answer arrives; on success the new tokens
   are stamped with the time of this instant *)
credentials_response(i) ==
    LET task == tasks[i]
        request == [op |-> "credentials", task |-> i, user_id |-> task.user_id,
                    org_id |-> task.org_id]
        sent == <<RefreshRequest(task.refresh_token)>>
    IN
    /\ task.pc = "refresh"
    /\ \E response \in Answers(BodiesFor(PlainRefreshBodies(now), i)) :
       CASE response.kind = "http_error" ->
              /\ last' = request @@
                      [status |-> 400,
                       detail |-> "Failed to refresh HubSpot token",
                       requests |-> sent, result |-> None]
              /\ tasks' = [tasks EXCEPT ![i] = Idle]
         [] response.kind = "bad_json" ->
              /\ last' = request @@
                      [status |-> 500, detail |-> "JSONDecodeError",
                       requests |-> sent, result |-> None]
              /\ tasks' = [tasks EXCEPT ![i] = Idle]
         [] response.kind = "ok" ->
              /\ tasks' = [tasks EXCEPT ![i] =
                            [pc |-> "recache", op |-> "credentials",
                             user_id |-> task.user_id, org_id |-> task.org_id,
                             refresh_token |-> task.refresh_token,
                             new_tokens |-> Stamp(response.body, now)]]
              /\ last' = [op |-> "credentials_response", task |-> i]
    /\ UNCHANGED <<now, redis, nextNonce, lastAuth, consumed, issued>>

(* lines 216-222: the stamped tokens are cached and returned *)
credentials_store(i) ==
    LET task == tasks[i] IN
    /\ task.pc = "recache"
    /\ redis' = RefreshStore(redis, task.org_id, task.user_id,
                             task.new_tokens, now)
    /\ tasks' = [tasks EXCEPT ![i] = Idle]
    /\ last' = [op |-> "credentials", task |-> i, user_id |-> task.user_id,
                org_id |-> task.org_id, status |-> 200, detail |-> "refreshed",
                requests |-> <<RefreshRequest(task.refresh_token)>>,
                result |-> task.new_tokens]
    /\ UNCHANGED <<now, nextNonce, lastAuth, consumed, issued>>

(* a call in flight is lost where it is suspended: nothing it has not yet
   done happens *)
Crash(i) ==
    /\ tasks[i] # Idle
    /\ tasks' = [tasks EXCEPT ![i] = Idle]
    /\ last' = [op |-> "crash", task |-> i, pc |-> tasks[i].pc]
    /\ UNCHANGED <<now, redis, nextNonce, lastAuth, consumed, issued>>

-----------------------------------------------------------------------------
(* The clock *)

Tick(t) ==
    /\ now < t /\ t <= MaxTime
    /\ now' = t
    /\ redis' = Evict(redis, t)
    /\ last' = [op |-> "tick"]
    /\ UNCHANGED <<nextNonce, lastAuth, consumed, issued, tasks>>

-----------------------------------------------------------------------------
Init ==
    /\ now = StartTime
    /\ redis = <<>>
    /\ nextNonce = 1
    /\ lastAuth = <<>>
    /\ consumed = {}
    /\ issued = <<>>
    /\ tasks = [i \in Tasks |-> Idle]
    /\ last = [op |-> "init"]

Next ==
    \/ \E p \in Pairs : authorize_hubspot(p[2], p[1])
    \/ \E q \in CallbackRequests :
            oauth2callback_hubspot(q.error, q.code, q.state)
    \/ \E p \in Pairs : get_hubspot_credentials(p[2], p[1])
    \/ \E t \in Instants : Tick(t)

Spec == Init /\ [][Next]_vars

(* the item fetch alone: it reads and writes nothing but its argument and the
   provider's answers *)
NextItems ==
    \E credentials_text \in CredentialTexts,
       a1 \in ListAnswers("contact"), a2 \in ListAnswers("company"),
       a3 \in ListAnswers("deal") :
        get_items_hubspot(credentials_text, <<a1, a2, a3>>)

SpecItems == Init /\ [][NextItems]_vars

(* the clock of the concurrent callbacks: observed over one lifetime of a
   state entry *)
CallbackInstants == {t \in Instants : t <= StartTime + STATE_EXPIRE}

(* the clock of the concurrent accessor calls: observed at the lapse of an
   access token and at the lapse of a credentials entry *)
RefreshInstants == {t \in Instants : t - StartTime \in {0, 1800, CALLBACK_EXPIRE}}

(* concurrent callbacks, split at their awaits *)
NextCallbackSteps ==
    \/ authorize_hubspot(StepPair[2], StepPair[1])
    \/ \E i \in Tasks, es \in IssuedStateParams : callback_begin(i, "c1", es)
    \/ \E i \in Tasks : callback_store(i)
    \/ \E i \in Tasks : callback_delete(i)
    \/ \E i \in Tasks : Crash(i)
    \/ \E t \in CallbackInstants : Tick(t)

SpecCallbackSteps == Init /\ [][NextCallbackSteps]_vars

(* concurrent accessor calls, split at their awaits, on the records that
   completed authorizations leave in the cache *)
NextRefreshSteps ==
    \/ authorize_hubspot(StepPair[2], StepPair[1])
    \/ \E es \in IssuedStateParams : oauth2callback_hubspot(FALSE, "c1", es)
    \/ \E i \in Tasks : credentials_begin(i, StepPair[2], StepPair[1])
    \/ \E i \in Tasks : credentials_response(i)
    \/ \E i \in Tasks : credentials_store(i)
    \/ \E i \in Tasks : Crash(i)
    \/ \E t \in RefreshInstants : Tick(t)

SpecRefreshSteps == Init /\ [][NextRefreshSteps]_vars

-----------------------------------------------------------------------------
(* Properties *)

(* the cache keys as the interface names them *)
CredentialsKeyOf(org_id, user_id) == "hubspot_credentials:" \o org_id \o ":" \o user_id
StateKeyOf(org_id, user_id) == "hubspot_state:" \o org_id \o ":" \o user_id

(* the entry under key k is present and its time to live has not elapsed *)
Cached(k) == k \in DOMAIN redis /\ now < redis[k].expire_at

(* the record cached under key k *)
RecordAt(k) == redis[k].value[2]

(* the time at which the credentials entry under k was written: its time to
   live is 3600 seconds from the write *)
WrittenAt(k) == redis[k].expire_at - 3600

(* the step is a call of get_hubspot_credentials *)
AccessorStep == last'.op = "credentials"

(* ... for a cached record that carries created_at and expires_in *)
AccessorStepOnDated ==
    /\ AccessorStep
    /\ Cached(CredentialsKeyOf(last'.org_id, last'.user_id))
    /\ {"created_at", "expires_in"} \subseteq
            DOMAIN RecordAt(CredentialsKeyOf(last'.org_id, last'.user_id))

AccessorStepOnExpired ==
    /\ AccessorStepOnDated
    /\ LET rec == RecordAt(CredentialsKeyOf(last'.org_id, last'.user_id))
       IN now >= rec.created_at + rec.expires_in

AccessorStepOnFresh ==
    /\ AccessorStepOnDated
    /\ LET rec == RecordAt(CredentialsKeyOf(last'.org_id, last'.user_id))
       IN now < rec.created_at + rec.expires_in

(* C1: get_hubspot_credentials never returns a record whose access token is
   past its validity instant (the time the record was issued, i.e. written
   to the cache, plus expires_in) without having refreshed it; records
   written by oauth2callback_hubspot included. *)
C1_NeverReturnsExpiredToken ==
    (/\ last.op = "credentials"
     /\ last.status = 200
     /\ "expires_in" \in DOMAIN last.result)
        => now < WrittenAt(CredentialsKeyOf(last.org_id, last.user_id))
                    + last.result.expires_in

(* C2 as stated: for a cached record with now >= created_at + expires_in, one
   call performs exactly one refresh_token request, re-caches the result with
   TTL 3600 and returns a record with created_at >= the time of the call. *)
C2_ExpiredAlwaysRefreshed ==
    [][AccessorStepOnExpired =>
        LET k == CredentialsKeyOf(last'.org_id, last'.user_id) IN
        /\ Len(last'.requests) = 1
        /\ last'.requests[1].grant_type = "refresh_token"
        /\ last'.status = 200
        /\ "created_at" \in DOMAIN last'.result
        /\ last'.result.created_at >= now
        /\ k \in DOMAIN redis'
        /\ redis'[k] = [value |-> <<"json", last'.result>>,
                        expire_at |-> now + 3600]]_vars

(* C2 amended: for such a record one call sends at most one refresh_token
   request, exactly one (carrying the record's refresh_token) when the record
   holds one; when the provider answers it with a JSON object the call
   returns that object with created_at set to a time >= the start of the
   call, and re-caches exactly it under the credentials key with TTL 3600;
   in every other case the call fails, returns no record and leaves the
   cache unchanged (400 'Failed to refresh' on an HTTP error). *)
C2_RefreshOnceOrFail ==
    [][AccessorStepOnExpired =>
        LET k == CredentialsKeyOf(last'.org_id, last'.user_id)
            rec == RecordAt(k)
            answered == /\ "refresh_token" \in DOMAIN rec
                        /\ last'.responses[1].kind = "ok"
        IN
        /\ Len(last'.requests) <= 1
        /\ Len(last'.requests) = 1 <=> "refresh_token" \in DOMAIN rec
        /\ \A i \in 1..Len(last'.requests) :
                /\ last'.requests[i].grant_type = "refresh_token"
                /\ last'.requests[i].refresh_token = rec.refresh_token
        /\ answered =>
                /\ last'.status = 200
                /\ "created_at" \in DOMAIN last'.result
                /\ last'.result.created_at >= now
                /\ \A f \in DOMAIN last'.responses[1].body \ {"created_at"} :
                        /\ f \in DOMAIN last'.result
                        /\ last'.result[f] = last'.responses[1].body[f]
                /\ DOMAIN last'.result =
                        DOMAIN last'.responses[1].body \cup {"created_at"}
                /\ DOMAIN redis' = DOMAIN redis
                /\ \A x \in DOMAIN redis :
                        redis'[x] = IF x = k
                                    THEN [value |-> <<"json", last'.result>>,
                                          expire_at |-> now + 3600]
                                    ELSE redis[x]
        /\ ~answered =>
                /\ last'.status # 200
                /\ last'.result = <<>>
                /\ redis' = redis
                /\ (/\ Len(last'.requests) = 1
                    /\ last'.responses[1].kind = "http_error")
                        => /\ last'.status = 400
                           /\ last'.detail = "Failed to refresh HubSpot token"
       ]_vars

(* an expired record has been refreshed, and the one request was answered *)
C2_Witness ==
    /\ last.op = "credentials"
    /\ Len(last.requests) = 1
    /\ last.status = 200
    /\ last.result.created_at = now
    /\ now > StartTime

(* C3: for a cached record with now < created_at + expires_in, the accessor
   returns the cached record unchanged, makes no provider request and leaves
   the cache (values and expiry of every key) unchanged. *)
C3_FreshReturnedAsIs ==
    [][AccessorStepOnFresh =>
        /\ last'.status = 200
        /\ last'.result = RecordAt(CredentialsKeyOf(last'.org_id, last'.user_id))
        /\ last'.requests = <<>>
        /\ redis' = redis]_vars

(* a record with created_at and expires_in was served from the cache before
   its expiry, with a state entry in the cache as well *)
C3_Witness ==
    /\ last.op = "credentials"
    /\ last.status = 200
    /\ last.requests = <<>>
    /\ "created_at" \in DOMAIN last.result
    /\ now < last.result.created_at + last.result.expires_in
    /\ Cached(StateKeyOf(last.org_id, last.user_id))

(* C4: every record cached under a hubspot_credentials key carries
   access_token, refresh_token, expires_in and created_at, and its created_at
   is the time at which the record was written. *)
C4_RecordsCarryCreatedAt ==
    \A p \in Pairs :
        LET k == CredentialsKeyOf(p[1], p[2]) IN
        Cached(k) =>
            /\ {"access_token", "refresh_token", "expires_in", "created_at"}
                    \subseteq DOMAIN RecordAt(k)
            /\ RecordAt(k).created_at = WrittenAt(k)

(* the step is a call of oauth2callback_hubspot; it proceeded to the token
   exchange when it sent a request to the token endpoint *)
CallbackStep == last'.op = "callback"
Proceeded == last'.requests # <<>>

(* the state parameter decodes (base64, then JSON) to an object *)
DecodesToObject(encoded_state) ==
    /\ Len(encoded_state) = 2 /\ encoded_state[1] = "b64"
    /\ Len(encoded_state[2]) = 2 /\ encoded_state[2][1] = "json"
    /\ "json_array" \notin DOMAIN encoded_state[2][2]
BlobOf(encoded_state) == encoded_state[2][2]

(* the cache holds a state entry for the blob's org+user whose nonce is the
   blob's *)
NonceMatchesCache(blob) ==
    /\ {"state", "org_id", "user_id"} \subseteq DOMAIN blob
    /\ Cached(StateKeyOf(blob.org_id, blob.user_id))
    /\ RecordAt(StateKeyOf(blob.org_id, blob.user_id)).state = blob.state

(* C5 as stated: the callback proceeds to the token exchange only if the
   decoded state blob is identical, field for field and byte for byte, to the
   blob cached under hubspot_state:{org_id}:{user_id}. *)
C5_ProceedsOnlyOnIdenticalBlob ==
    [][(CallbackStep /\ Proceeded) =>
        /\ DecodesToObject(last'.state)
        /\ LET blob == BlobOf(last'.state) IN
           /\ DOMAIN blob = {"state", "user_id", "org_id"}
           /\ Cached(StateKeyOf(blob.org_id, blob.user_id))
           /\ redis[StateKeyOf(blob.org_id, blob.user_id)].value = last'.state[2]
      ]_vars

(* C5 amended: the callback proceeds to the token exchange exactly when the
   request carries no error, a code and a state that decodes to an object
   whose nonce equals the nonce of the blob cached under
   hubspot_state:{org_id}:{user_id} for the decoded org_id and user_id; the
   other fields of the blob are not compared. *)
C5_ProceedsIffNonceMatches ==
    [][CallbackStep =>
        (Proceeded <=>
            /\ ~last'.error
            /\ last'.code # ""
            /\ DecodesToObject(last'.state)
            /\ NonceMatchesCache(BlobOf(last'.state)))]_vars

(* a callback has proceeded with a blob that is not the cached one: it
   carries a field more *)
C5_Witness ==
    /\ last.op = "callback"
    /\ last.requests # <<>>
    /\ "extra" \in DOMAIN BlobOf(last.state)

(* the request is rejected before the token exchange for one of the listed
   reasons *)
RejectedBeforeExchange ==
    \/ last'.error
    \/ last'.code = ""
    \/ last'.state = <<>>
    \/ ~(/\ Len(last'.state) = 2 /\ last'.state[1] = "b64"
         /\ Len(last'.state[2]) = 2 /\ last'.state[2][1] = "json")
    \/ /\ DecodesToObject(last'.state)
       /\ ~NonceMatchesCache(BlobOf(last'.state))

(* C6: a callback rejected before the token exchange (error parameter, code
   or state missing, state not decodable, no cached state for the decoded
   org+user, nonce different from the cached one) ends in a 400 error, sends
   no request to the token endpoint and leaves every cache entry unchanged. *)
C6_RejectedLeavesNoTrace ==
    [][(CallbackStep /\ RejectedBeforeExchange) =>
        /\ last'.status = 400
        /\ last'.requests = <<>>
        /\ redis' = redis]_vars

(* a callback with a wrong nonce was rejected while the cache held a state
   entry and a credentials entry *)
C6_Witness ==
    /\ last.op = "callback"
    /\ last.detail = "State validation failed"
    /\ "state" \in DOMAIN BlobOf(last.state)
    /\ Cached(StateKeyOf(BlobOf(last.state).org_id, BlobOf(last.state).user_id))
    /\ Cached(CredentialsKeyOf(BlobOf(last.state).org_id,
                               BlobOf(last.state).user_id))

(* C7: a successful callback stores the tokens under
   hubspot_credentials:{org_id}:{user_id} with TTL 3600 and deletes
   hubspot_state:{org_id}:{user_id}; once a callback has succeeded, every
   later callback carrying the same state is rejected with 'State validation
   failed' (a new authorize_hubspot call yields a new nonce, so the old state
   stays rejected). *)
C7_StateIsSingleUse ==
    [][CallbackStep =>
        /\ last'.status = 200 =>
            LET blob == BlobOf(last'.state)
                ck == CredentialsKeyOf(blob.org_id, blob.user_id)
                sk == StateKeyOf(blob.org_id, blob.user_id)
            IN /\ DOMAIN redis' = (DOMAIN redis \cup {ck}) \ {sk}
               /\ redis'[ck] = [value |-> <<"json", last'.responses[1].body>>,
                                expire_at |-> now + 3600]
               /\ \A x \in DOMAIN redis' \ {ck} : redis'[x] = redis[x]
        /\ (/\ ~last'.error
            /\ last'.code # ""
            /\ DecodesToObject(last'.state)
            /\ "state" \in DOMAIN BlobOf(last'.state)
            /\ BlobOf(last'.state).state \in consumed)
                => /\ last'.status = 400
                   /\ last'.detail = "State validation failed"
                   /\ last'.requests = <<>>
      ]_vars

(* the state of a completed callback was presented again, after a new
   authorization of the same org+user, and rejected *)
C7_Witness ==
    /\ last.op = "callback"
    /\ last.detail = "State validation failed"
    /\ "state" \in DOMAIN BlobOf(last.state)
    /\ BlobOf(last.state).state \in consumed
    /\ Cached(StateKeyOf(BlobOf(last.state).org_id, BlobOf(last.state).user_id))

(* C8: every failure ends the operation with a 400-class HTTPException; no
   operation ends with any other, unhandled exception. *)
C8_FailuresAre400 ==
    last.op \in {"callback", "credentials", "items"}
        => last.status \in {200, 400}

(* C10: after authorize_hubspot(user_id, org_id) the cache holds under
   hubspot_state:{org_id}:{user_id}, with TTL 600, the blob {nonce, user_id,
   org_id} that the state parameter of the returned URL decodes to; and a
   callback carrying this state and a code, arriving before the TTL elapses,
   with no authorize in between and the state not yet used, proceeds to the
   exchange and succeeds when the provider accepts the code. *)
C10_AuthorizeThenCallback ==
    /\ [](last.op = "authorize" =>
            LET k == StateKeyOf(last.org_id, last.user_id) IN
            /\ k \in DOMAIN redis
            /\ redis[k].expire_at = now + 600
            /\ redis[k].value = last.result.state[2]
            /\ redis[k].value[1] = "json"
            /\ DOMAIN redis[k].value[2] = {"state", "user_id", "org_id"}
            /\ redis[k].value[2].user_id = last.user_id
            /\ redis[k].value[2].org_id = last.org_id)
    /\ [][(/\ CallbackStep
           /\ lastAuth # <<>>
           /\ last'.state = lastAuth.url.state
           /\ ~last'.error
           /\ last'.code # ""
           /\ now < lastAuth.at + 600
           /\ lastAuth.nonce \notin consumed)
            => /\ Proceeded
               /\ last'.responses[1].kind = "ok" =>
                    /\ last'.status = 200
                    /\ Cached(CredentialsKeyOf(lastAuth.org_id, lastAuth.user_id))'
          ]_vars

(* the callback of the latest authorization succeeded *)
C10_Witness ==
    /\ last.op = "callback"
    /\ last.status = 200
    /\ lastAuth # <<>>
    /\ last.state = lastAuth.url.state
    /\ now < lastAuth.at + 600

(* C9: get_items_hubspot is all-or-nothing.  Given credentials with an access
   token it requests contacts, then companies, then deals (each once, limit
   100) as long as the requests succeed; either all three succeed and it
   returns the normalized contacts, then companies, then deals, or the first
   failing request ends the fetch with a 400 error, no later endpoint is
   requested and no item is returned. *)
C9_FetchAllOrNothing ==
    (/\ last.op = "items"
     /\ last.credentials[1] = "json"
     /\ "access_token" \in DOMAIN last.credentials[2]
     /\ last.credentials[2].access_token # "")
        => LET n == Len(last.requests)
               token == last.credentials[2].access_token
               kinds == <<"contact", "company", "deal">>
               page(i) == IF "results" \in DOMAIN last.responses[i].body
                          THEN [j \in 1..Len(last.responses[i].body.results) |->
                                  create_integration_item_metadata_object(
                                      last.responses[i].body.results[j], kinds[i])]
                          ELSE <<>>
           IN /\ n \in 1..3
              /\ Len(last.responses) = n
              /\ \A i \in 1..n :
                    /\ last.requests[i].method = "GET"
                    /\ last.requests[i].url = Endpoints[i]
                    /\ last.requests[i].limit = 100
                    /\ last.requests[i].authorization = <<"Bearer", " ", token>>
              /\ \A i \in 1..(n - 1) : last.responses[i].kind = "ok"
              /\ IF last.responses[n].kind = "ok"
                 THEN /\ n = 3
                      /\ last.status = 200
                      /\ last.result = page(1) \o page(2) \o page(3)
                 ELSE /\ last.status = 400
                      /\ "result" \notin DOMAIN last

(* contacts and companies were fetched, the deals request failed, and nothing
   was returned *)
C9_Witness ==
    /\ last.op = "items"
    /\ Len(last.requests) = 3
    /\ "results" \in DOMAIN last.responses[1].body
    /\ Len(last.responses[1].body.results) = 2
    /\ "results" \in DOMAIN last.responses[2].body
    /\ Len(last.responses[2].body.results) = 1
    /\ last.responses[3].kind = "http_error"
    /\ last.status = 400
    /\ "result" \notin DOMAIN last

(* the step is the arrival of a callback among concurrent calls: it is
   rejected at once, or its authorization_code request is sent *)
CallbackArrival ==
    \/ last'.op = "callback_begin"
    \/ last'.op = "callback" /\ last'.requests = <<>>

(* no call is in flight *)
AllIdle == \A i \in DOMAIN tasks : tasks[i].pc = "idle"

(* C11: a state entry never outlives 600 seconds from the authorize_hubspot
   call that wrote it, whatever happens to the callback (it never arrives, is
   rejected, fails at the exchange, or is lost between storing the tokens and
   deleting the state); a callback that arrives at or after that instant,
   with no newer authorize for the same org+user, is rejected and stores no
   credentials.  The calls being made for one org+user, the entry in the
   cache is that of the latest authorize call, and the callback with no newer
   authorize is the one carrying its nonce. *)
C11_StateEntryBoundedByTtl ==
    /\ [](\A p \in Pairs :
            LET k == StateKeyOf(p[1], p[2]) IN
            k \in DOMAIN redis =>
                /\ lastAuth # <<>>
                /\ RecordAt(k).state = lastAuth.nonce
                /\ redis[k].expire_at = lastAuth.at + 600
                /\ now < lastAuth.at + 600)
    /\ [][(/\ CallbackArrival
           /\ DecodesToObject(last'.state)
           /\ lastAuth # <<>>
           /\ BlobOf(last'.state).state = lastAuth.nonce
           /\ now >= lastAuth.at + 600)
            => /\ last'.op = "callback"
               /\ last'.status = 400
               /\ last'.detail = "State validation failed"
               /\ redis' = redis
               /\ tasks' = tasks]_vars

(* a callback was lost between storing the tokens and deleting the state (the
   cache holds credentials although no callback has completed), and the
   callback carrying the same state 600 seconds after its authorization has
   been rejected *)
C11_Witness ==
    /\ last.op = "callback"
    /\ last.detail = "State validation failed"
    /\ lastAuth # <<>>
    /\ BlobOf(last.state).state = lastAuth.nonce
    /\ now >= lastAuth.at + 600
    /\ consumed = {}
    /\ AllIdle
    /\ Cached(CredentialsKeyOf(BlobOf(last.state).org_id,
                               BlobOf(last.state).user_id))

(* a contact record whose firstname and lastname are both empty or absent
   and whose email is present *)
EmailOnlyContact(item) ==
    /\ "properties" \in DOMAIN item
    /\ "firstname" \in DOMAIN item.properties => item.properties.firstname = <<>>
    /\ "lastname" \in DOMAIN item.properties => item.properties.lastname = <<>>
    /\ "email" \in DOMAIN item.properties
    /\ item.properties.email # <<>>

(* C12: for every contact whose firstname and lastname are both empty or
   absent and whose email is present, the item produced has as display name
   exactly the email. *)
C12_EmailOnlyContactNamedByEmail ==
    (/\ last.op = "items"
     /\ last.status = 200
     /\ "results" \in DOMAIN last.responses[1].body)
        => \A j \in 1..Len(last.responses[1].body.results) :
              LET contact == last.responses[1].body.results[j] IN
              EmailOnlyContact(contact)
                  => last.result[j].name = contact.properties.email

(* the step is a call of get_hubspot_credentials that refreshed the record *)
RefreshedStep ==
    /\ last'.op = "credentials"
    /\ last'.status = 200
    /\ last'.requests # <<>>

(* C13: a successful refresh replaces the cached record wholesale: the record
   in the cache afterwards is exactly the provider's refresh response plus
   created_at; no field of the previous record, its refresh_token in
   particular, is carried over when the response omits it. *)
C13_RefreshReplacesWholesale ==
    [][RefreshedStep =>
        LET k == CredentialsKeyOf(last'.org_id, last'.user_id)
            body == last'.responses[1].body
            after == redis'[k].value[2]
        IN /\ k \in DOMAIN redis'
           /\ redis'[k].value[1] = "json"
           /\ DOMAIN after = DOMAIN body \cup {"created_at"}
           /\ \A f \in DOMAIN body \ {"created_at"} : after[f] = body[f]
           /\ after.created_at = now
           /\ \A f \in DOMAIN RecordAt(k) \ (DOMAIN body \cup {"created_at"}) :
                    f \notin DOMAIN after]_vars

(* a record holding a refresh_token was refreshed with an answer that has
   none, and the record now cached has none *)
C13_Witness ==
    /\ last.op = "credentials"
    /\ last.status = 200
    /\ last.requests # <<>>
    /\ "refresh_token" \notin DOMAIN last.responses[1].body
    /\ Cached(CredentialsKeyOf(last.org_id, last.user_id))
    /\ "refresh_token" \notin
            DOMAIN RecordAt(CredentialsKeyOf(last.org_id, last.user_id))

(* the credentials keys of the identifier pairs *)
CredentialKeys == {CredentialsKeyOf(p[1], p[2]) : p \in Pairs}

(* C14: when get_hubspot_credentials finds no entry under
   hubspot_credentials:{org_id}:{user_id} (never authorized, or the 3600
   seconds of the last write have elapsed), it fails with 400 'No HubSpot
   credentials found', makes no provider request and writes nothing to the
   cache; every write of the entry, a refresh included, starts a time to live
   of 3600 seconds, and the entry goes only when that time has elapsed. *)
C14_NoEntryFailsAndRefreshRestartsTtl ==
    /\ [](\A k \in CredentialKeys : k \in DOMAIN redis => now < redis[k].expire_at)
    /\ [][/\ (AccessorStep /\ ~Cached(CredentialsKeyOf(last'.org_id, last'.user_id)))
                => /\ last'.status = 400
                   /\ last'.detail = "No HubSpot credentials found"
                   /\ last'.requests = <<>>
                   /\ redis' = redis
          /\ RefreshedStep
                => LET k == CredentialsKeyOf(last'.org_id, last'.user_id)
                   IN k \in DOMAIN redis' /\ redis'[k].expire_at = now + 3600
          /\ \A k \in CredentialKeys :
                /\ (k \in DOMAIN redis' /\ (k \notin DOMAIN redis \/ redis'[k] # redis[k]))
                        => redis'[k].expire_at = now + 3600
                /\ (k \in DOMAIN redis /\ k \notin DOMAIN redis')
                        => now' >= redis[k].expire_at]_vars

(* after a completed authorization, 3600 seconds or more later, the accessor
   found no entry and failed *)
C14_Witness ==
    /\ last.op = "credentials"
    /\ last.status = 400
    /\ last.detail = "No HubSpot credentials found"
    /\ consumed # {}
    /\ now >= StartTime + 3600

(* the step is a callback whose token exchange failed with an HTTP error *)
ExchangeFailedStep ==
    /\ CallbackStep
    /\ Proceeded
    /\ last'.responses[1].kind = "http_error"

(* C15: when the token exchange fails with an HTTP error, the callback ends
   in a 400 error, no credentials entry is written or changed, and the state
   entry is not deleted: the cache still holds it with the nonce of the
   request, so that the same state passes validation again until its time to
   live elapses. *)
C15_FailedExchangeKeepsState ==
    [][ExchangeFailedStep =>
        LET blob == BlobOf(last'.state)
            sk == StateKeyOf(blob.org_id, blob.user_id)
        IN /\ last'.status = 400
           /\ last'.detail = "Failed to exchange code for tokens"
           /\ Len(last'.requests) = 1
           /\ redis' = redis
           /\ sk \in DOMAIN redis'
           /\ now' < redis'[sk].expire_at
           /\ "state" \in DOMAIN blob
           /\ redis'[sk].value[2].state = blob.state
           /\ CallbackValidate(FALSE, last'.code, last'.state, redis', now')
                    = "pass"]_vars

(* the exchange failed while the cache held credentials of an earlier
   authorization; the state entry is still there *)
C15_Witness ==
    /\ last.op = "callback"
    /\ last.status = 400
    /\ last.detail = "Failed to exchange code for tokens"
    /\ Cached(StateKeyOf(BlobOf(last.state).org_id, BlobOf(last.state).user_id))
    /\ Cached(CredentialsKeyOf(BlobOf(last.state).org_id,
                               BlobOf(last.state).user_id))

(* the step is an accessor call whose refresh request failed with an HTTP
   error *)
RefreshFailedStep ==
    /\ AccessorStep
    /\ last'.requests # <<>>
    /\ last'.responses[1].kind = "http_error"

(* C16: when the refresh request fails with an HTTP error, the accessor ends
   in 400 'Failed to refresh HubSpot token', returns no record and leaves the
   cached record, value and remaining time to live, unchanged: the record is
   still cached and still expired, so that the next accessor call sends the
   refresh request again. *)
C16_FailedRefreshKeepsRecord ==
    [][RefreshFailedStep =>
        LET k == CredentialsKeyOf(last'.org_id, last'.user_id) IN
        /\ last'.status = 400
        /\ last'.detail = "Failed to refresh HubSpot token"
        /\ last'.result = <<>>
        /\ Len(last'.requests) = 1
        /\ last'.requests[1].grant_type = "refresh_token"
        /\ last'.requests[1].refresh_token = RecordAt(k).refresh_token
        /\ redis' = redis
        /\ k \in DOMAIN redis'
        /\ now' < redis'[k].expire_at
        /\ {"created_at", "expires_in", "refresh_token"}
                \subseteq DOMAIN redis'[k].value[2]
        /\ now' >= redis'[k].value[2].created_at + redis'[k].value[2].expires_in
      ]_vars

(* a refresh failed on a record that an earlier refresh had cached *)
C16_Witness ==
    /\ last.op = "credentials"
    /\ last.status = 400
    /\ last.detail = "Failed to refresh HubSpot token"
    /\ Cached(CredentialsKeyOf(last.org_id, last.user_id))
    /\ RecordAt(CredentialsKeyOf(last.org_id, last.user_id)).created_at > StartTime

(* C17: distinct (org_id, user_id) pairs never share a cache key (identifiers
   that contain ':' included): no call made for one pair overwrites the
   state entry of a different pair.  Here: an authorize_hubspot call changes
   no state entry whose blob names another org_id or user_id than the
   call's. *)
C17_PairsNeverShareEntries ==
    [][last'.op = "authorize" =>
        \A p \in Pairs :
            LET k == StateKeyOf(p[1], p[2]) IN
            (k \in DOMAIN redis /\ k \in DOMAIN redis' /\ redis'[k] # redis[k])
                => /\ RecordAt(k).org_id = last'.org_id
                   /\ RecordAt(k).user_id = last'.user_id]_vars

(* the state parameter of the URL that the authorize_hubspot call with nonce
   n returned *)
UrlStateOf(n) ==
    <<"b64", <<"json", [state |-> n, user_id |-> issued[n].user_id,
                        org_id |-> issued[n].org_id]>>>>

(* nonce n was drawn for the same org+user as a later nonce *)
Superseded(n) ==
    \E m \in DOMAIN issued :
        /\ m > n
        /\ issued[m].org_id = issued[n].org_id
        /\ issued[m].user_id = issued[n].user_id

(* C18: there is at most one pending state per org+user.  An authorize call
   leaves under the pair's key exactly its own nonce with a fresh 600-second
   time to live, whatever was pending; after a second authorize for the same
   pair, a callback carrying the state of the first URL is rejected, and a
   callback carrying the state of the second (the latest authorization,
   unused, within its 600 seconds) is accepted. *)
C18_OnePendingStatePerPair ==
    /\ [][last'.op = "authorize" =>
            LET k == StateKeyOf(last'.org_id, last'.user_id) IN
            /\ k \in DOMAIN redis'
            /\ redis'[k].value[2].state = lastAuth'.nonce
            /\ lastAuth'.nonce \notin DOMAIN issued
            /\ redis'[k].expire_at = now + 600]_vars
    /\ [][(/\ CallbackStep
           /\ ~last'.error
           /\ last'.code # ""
           /\ \E n \in DOMAIN issued :
                last'.state = UrlStateOf(n) /\ Superseded(n))
            => /\ last'.status = 400
               /\ last'.detail = "State validation failed"
               /\ last'.requests = <<>>
               /\ redis' = redis]_vars
    /\ [][(/\ CallbackStep
           /\ ~last'.error
           /\ last'.code # ""
           /\ \E n \in DOMAIN issued :
                /\ last'.state = UrlStateOf(n)
                /\ n = lastAuth.nonce
                /\ \E m \in DOMAIN issued : m < n /\ issued[m].org_id = issued[n].org_id
                                                  /\ issued[m].user_id = issued[n].user_id
                /\ n \notin consumed
                /\ now < lastAuth.at + 600)
            => Proceeded]_vars

(* two authorizations of one org+user at the same instant: the callback
   carrying the state of the first URL, well within 600 seconds, has been
   rejected, the nonce of the second being the one pending *)
C18_Witness ==
    /\ last.op = "callback"
    /\ last.detail = "State validation failed"
    /\ DOMAIN issued = {1, 2}
    /\ last.state = UrlStateOf(1)
    /\ Superseded(1)
    /\ lastAuth.at = StartTime
    /\ now < StartTime + 600
    /\ Cached(StateKeyOf(issued[2].org_id, issued[2].user_id))
    /\ RecordAt(StateKeyOf(issued[2].org_id, issued[2].user_id)).state = 2

(* call i is a callback that has passed state validation and sent its
   authorization_code request *)
Exchanging(i) == tasks[i].pc \in {"exchange", "delete"}

(* C19: a stored state nonce authorizes at most one token exchange even when
   two callbacks carrying that state are interleaved: never have two
   callbacks in flight both passed validation of the same state and sent an
   authorization_code request. *)
C19_OneExchangePerNonce ==
    \A i, j \in DOMAIN tasks :
        (i # j /\ Exchanging(i) /\ Exchanging(j))
            => tasks[i].state # tasks[j].state

(* the step is the arrival of an accessor call among concurrent calls: it
   returns or fails at once, or its refresh_token request is sent *)
AccessorArrival ==
    \/ last'.op = "credentials_begin"
    \/ last'.op = "credentials" /\ last'.requests = <<>>

(* the step is the token store that ends a refreshing accessor call *)
RefreshWrite ==
    /\ last'.op = "credentials"
    /\ last'.status = 200
    /\ last'.requests # <<>>

(* C20: when several get_hubspot_credentials calls for one org+user are
   interleaved on an expired record, each call that reads the expired record
   sends its own single refresh request, whatever the other calls have in
   flight, and returns the record it obtained itself; each write of the
   credentials entry puts there one complete record, that of the writing
   call, so that the entry never mixes two responses and holds in the end
   the record of the call that wrote last. *)
C20_InterleavedRefreshesLastWriterWins ==
    /\ [][(/\ AccessorArrival
           /\ Cached(CredentialsKeyOf(last'.org_id, last'.user_id))
           /\ LET rec == RecordAt(CredentialsKeyOf(last'.org_id, last'.user_id))
              IN /\ {"created_at", "expires_in", "refresh_token"}
                        \subseteq DOMAIN rec
                 /\ now >= rec.created_at + rec.expires_in)
            => /\ last'.op = "credentials_begin"
               /\ Len(last'.requests) = 1
               /\ last'.requests[1].grant_type = "refresh_token"
               /\ tasks'[last'.task].pc = "refresh"
               /\ \A j \in DOMAIN tasks \ {last'.task} : tasks'[j] = tasks[j]
               /\ redis' = redis]_vars
    /\ [][RefreshWrite =>
            LET k == CredentialsKeyOf(last'.org_id, last'.user_id)
                i == last'.task
            IN /\ tasks[i].pc = "recache"
               /\ last'.result = tasks[i].new_tokens
               /\ last'.result.access_token = TokenOf(i)
               /\ "created_at" \in DOMAIN last'.result
               /\ Len(last'.requests) = 1
               /\ DOMAIN redis' = DOMAIN redis \cup {k}
               /\ redis'[k] = [value |-> <<"json", last'.result>>,
                               expire_at |-> now + 3600]
               /\ \A x \in DOMAIN redis \ {k} : redis'[x] = redis[x]]_vars
    /\ [][\A k \in CredentialKeys :
            (k \in DOMAIN redis' /\ (k \notin DOMAIN redis \/ redis'[k] # redis[k]))
                => \/ RefreshWrite
                   \/ last'.op = "callback" /\ last'.status = 200]_vars

(* two calls have each refreshed the same expired record: the first has
   cached and returned its own record, the second holds another and is about
   to overwrite it *)
C20_Witness ==
    /\ last.op = "credentials"
    /\ last.status = 200
    /\ last.requests # <<>>
    /\ \E j \in DOMAIN tasks :
        /\ j # last.task
        /\ tasks[j].pc = "recache"
        /\ tasks[j].new_tokens.access_token # last.result.access_token
    /\ RecordAt(CredentialsKeyOf(last.org_id, last.user_id)) = last.result

====
